---- MODULE Spec2Model ----
(***************************************************************************)
(* State-machine model of the QA Platform Python SDK client                *)
(* (docs/generated/sdks/qa_platform_sdk.py): the QAPlatformAPI object, its  *)
(* request() retry loop, login/logout, paginate, get_files, get_api_keys,   *)
(* upload_file and validate_webhook_signature, against a remote server     *)
(* whose answers are inputs, and a second thread that logs in and out on   *)
(* the same client.                                                        *)
(*                                                                         *)
(* Python values are modelled as follows: Optional[x] is a sequence of     *)
(* length 0 (None) or 1; a dict is a function over its keys; an exception   *)
(* raised out of a call and a returned value are both "outcome" records.   *)
(* Durations are whole seconds.                                            *)
(***************************************************************************)
EXTENDS Integers, Sequences, FiniteSets, TLC

(* ------------------------------ bounds -------------------------------- *)
MaxRetry == 2      \* retry_attempts ranges over 0..MaxRetry
MaxDelay == 2      \* retry_delay ranges over 1..MaxDelay
MaxItems == 4      \* the served collection holds 0..MaxItems items
MaxLimit == 2      \* the caller's limit ranges over 1..MaxLimit (or is absent)

(* -------------------------- program constants -------------------------- *)
DefaultRetryAfter == 60
DefaultLimit == 20

VARIABLES
  api_key,          \* self.api_key            (Optional[str])
  jwt_token,        \* self.jwt_token          (Optional[str])
  session_headers,  \* self.session.headers    (dict)
  retry_attempts,   \* self.retry_attempts
  retry_delay,      \* self.retry_delay
  op,               \* the public method being executed, "none" when idle
  pc,               \* position inside that method
  attempt,          \* request(): the for-loop variable
  response,         \* request(): what session.request gave for this attempt
  sent,             \* request(): the requests dispatched by this invocation
  served,           \* request(): the server's answers to them
  sleeps,           \* request(): the time.sleep calls made, <<attempt, secs>>
  standby,          \* the server: the answer it had ready for the dispatch
                    \* after the last one, recorded when the loop runs out
  ret,              \* request(): what the invocation returned or raised
  done,             \* the public method that finished last, "none" at first
  result,           \* what that call returned or raised
  limit,            \* paginate(): local limit
  offset,           \* paginate(): local offset
  results,          \* paginate(): local accumulator
  fetches,          \* paginate(): params of the request() calls it has made
  options,          \* paginate(): the caller's **options once 'limit' is popped
  total,            \* the server: size of the collection it serves
  filters,          \* get_files() / get_api_keys(): the caller's **filters
  file_arg,         \* upload_file(): what the last call was given as file_path
  stream,           \* the file object of that call: "none", "open", "closed"
  webhook,          \* validate_webhook_signature(): its arguments and result
  peer_op,          \* a second thread on the same client: its public method
  peer_pc,          \* its position inside that method
  peer_attempt,     \* its request(): the for-loop variable
  peer_ret,         \* its request(): the outcome
  loginTok,         \* history: token of the last login that stored one,
                    \* None after a completed logout
  ctor              \* history: the credentials the constructor was given

vars == <<api_key, jwt_token, session_headers, retry_attempts, retry_delay,
          op, pc, attempt, response, sent, served, sleeps, standby, ret,
          done, result, limit, offset, results, fetches, options, total,
          filters, file_arg, stream, webhook, peer_op, peer_pc, peer_attempt, peer_ret,
          loginTok, ctor>>

(* ------------------------- Python value helpers ------------------------ *)
None == <<>>
Some(x) == <<x>>
Truthy(o) == o # None /\ o[1] # ""

EmptyDict == [k \in {} |-> ""]
DictGet(d, k, default) == IF k \in DOMAIN d THEN d[k] ELSE default
DictUpdate(d, e) == e @@ d
DictClear(d) == [x \in (DOMAIN d) \ (DOMAIN d) |-> d[x]]
DictDel(d, k) == [x \in (DOMAIN d) \ {k} |-> d[x]]

(* PyRange(a, b): the values of range(a, b). *)
PyRange(a, b) == a .. (b - 1)

(* int(x) for a header text (a sequence of characters): the decimal value   *)
(* of a non-empty digit string, ValueError for anything else.              *)
DigitVal == ("0" :> 0) @@ ("1" :> 1) @@ ("2" :> 2) @@ ("3" :> 3) @@ ("4" :> 4)
            @@ ("5" :> 5) @@ ("6" :> 6) @@ ("7" :> 7) @@ ("8" :> 8) @@ ("9" :> 9)

RECURSIVE Decimal(_)
Decimal(s) == IF s = <<>> THEN 0
              ELSE 10 * Decimal(SubSeq(s, 1, Len(s) - 1)) + DigitVal[s[Len(s)]]

PyInt(s) == IF s # <<>> /\ \A i \in 1..Len(s) : s[i] \in DOMAIN DigitVal
            THEN [ok |-> TRUE, val |-> Decimal(s)]
            ELSE [ok |-> FALSE, val |-> 0]

(* ---------------------- outcomes of a Python call ---------------------- *)
NoOutcome == [kind |-> "none", cls |-> "", message |-> "", status_code |-> None,
              error_code |-> None, details |-> <<>>, retry_after |-> None,
              value |-> EmptyDict]

Return(v) == [NoOutcome EXCEPT !.kind = "return", !.value = v]

(* class QAPlatformError(message, status_code=None, error_code=None, details=None) *)
QAPlatformError(message, status, code, details) ==
  [NoOutcome EXCEPT !.kind = "raise", !.cls = "QAPlatformError",
                    !.message = message, !.status_code = status,
                    !.error_code = code, !.details = details]

(* class RateLimitError(message, retry_after=60) *)
RateLimitError(message, retry_after) ==
  [QAPlatformError(message, Some(429), Some("rate_limit_exceeded"), <<>>)
     EXCEPT !.cls = "RateLimitError", !.retry_after = Some(retry_after)]

(* class AuthenticationError(message="Authentication failed") *)
AuthenticationError(message) ==
  [QAPlatformError(message, Some(401), Some("authentication_failed"), <<>>)
     EXCEPT !.cls = "AuthenticationError"]

(* An exception of a built-in class that request() does not catch. *)
Uncaught(cls, message) ==
  [NoOutcome EXCEPT !.kind = "raise", !.cls = cls, !.message = message]

(* ------------------------- session and headers ------------------------- *)
BaseHeaders == ("User-Agent" :> "QA-Platform-Python-SDK/1.1.0")
               @@ ("Accept" :> "application/json")
               @@ ("Content-Type" :> "application/json")

(* Mutant: the headers are updated in place, without the clear. *)
UpdateAuthHeaders_noClear(old, key, tok) ==
  LET defaults == DictUpdate(old, BaseHeaders)
  IN  IF Truthy(tok)
        THEN DictUpdate(defaults, "Authorization" :> ("Bearer " \o tok[1]))
        ELSE IF Truthy(key)
               THEN DictUpdate(defaults, "X-API-Key" :> key[1])
               ELSE defaults

(* _update_auth_headers: clear, set the three defaults, then one auth header *)
UpdateAuthHeaders(old, key, tok) ==
  LET cleared  == DictClear(old)
      defaults == DictUpdate(cleared, BaseHeaders)
  IN  IF Truthy(tok)
        THEN DictUpdate(defaults, "Authorization" :> ("Bearer " \o tok[1]))
        ELSE IF Truthy(key)
               THEN DictUpdate(defaults, "X-API-Key" :> key[1])
               ELSE defaults

(* ------------------------------ the server ----------------------------- *)
(* The remote service is an input: each dispatch is answered by one of the *)
(* AnswerKinds. Bodies follow the error shape the                          *)
(* client assumes, {"error": {"message", "code", "details"}}, or are not   *)
(* JSON at all; tokens are non-empty strings.                              *)
Keys == {"key-1"}
Tokens == {"tok-A", "tok-B"}

HttpResponse(status, hdrs, parsable, doc, text) ==
  [exc |-> None, status_code |-> status, headers |-> hdrs,
   parsable |-> parsable, doc |-> doc, text |-> text]

TransportError(cls) ==
  [exc |-> Some(cls), status_code |-> 0, headers |-> EmptyDict,
   parsable |-> FALSE, doc |-> EmptyDict, text |-> cls]

NoResponse == TransportError("")

ErrorDoc == [error |-> [message |-> "denied", code |-> "E_DENIED",
                        details |-> <<"reason">>]]

(* The slice of the fixed collection 1..n that limit/offset select. *)
Page(n, lim, off) ==
  LET hi == IF off + lim < n THEN off + lim ELSE n
  IN  [i \in 1..(IF hi > off THEN hi - off ELSE 0) |-> off + i]

PageDoc(n, lim, off) ==
  [data |-> Page(n, lim, off), pagination |-> [total |-> n, limit |-> lim, offset |-> off]]

TokenAnswers == {"200:" \o t : t \in Tokens}
TokenOf(a) == CHOOSE t \in Tokens : a = "200:" \o t

RetryableAnswers == {"429", "429:5", "500", "ConnectionError", "Timeout"}
FinalAnswers == {"200", "200:text", "401", "401:text", "404", "404:text", "429:date",
                 "TooManyRedirects"}

(* The answers that differ in how a caller of request() goes on: a page or *)
(* document, a body that is not JSON, the two error classes, and one       *)
(* retryable answer of each branch of the loop.                            *)
CoreAnswers == {"200", "200:text", "401", "404", "429:5", "500", "ConnectionError"}

(* request, login and logout are run against every answer; the methods     *)
(* built on request() against the core ones.                               *)
AnswerKinds(o) ==
  IF o \in {"request", "login", "logout"}
    THEN RetryableAnswers \cup FinalAnswers
         \cup (IF o = "login" THEN TokenAnswers ELSE {})
    ELSE CoreAnswers

OkDoc(o, req, n) ==
  CASE o = "paginate" -> PageDoc(n, req.params[1].limit, req.params[1].offset)
    [] o = "login"    -> [message |-> "verification required"]
    [] o = "logout"   -> [message |-> "logged out"]
    [] OTHER          -> [status |-> "healthy"]

ServerAnswer(a, o, req, n) ==
  CASE a = "200"       -> HttpResponse(200, EmptyDict, TRUE, OkDoc(o, req, n), "")
    [] a \in TokenAnswers -> HttpResponse(200, EmptyDict, TRUE, [token |-> TokenOf(a)], "")
    [] a = "200:text"  -> HttpResponse(200, EmptyDict, FALSE, EmptyDict, "<html>")
    [] a = "401"       -> HttpResponse(401, EmptyDict, TRUE, ErrorDoc, "")
    [] a = "401:text"  -> HttpResponse(401, EmptyDict, FALSE, EmptyDict, "")
    [] a = "404"       -> HttpResponse(404, EmptyDict, TRUE, ErrorDoc, "")
    [] a = "429"       -> HttpResponse(429, EmptyDict, TRUE, ErrorDoc, "")
    [] a = "429:5"     -> HttpResponse(429, "retry-after" :> <<"5">>, TRUE, ErrorDoc, "")
    [] a = "429:date"  -> HttpResponse(429, "retry-after" :> <<"W", "e", "d">>, TRUE,
                                       ErrorDoc, "")
    [] a = "404:text"  -> HttpResponse(404, EmptyDict, FALSE, EmptyDict, "")
    [] a = "500"       -> HttpResponse(500, EmptyDict, TRUE, ErrorDoc, "")
    [] OTHER           -> TransportError(a)

(* -------------------------- request(): pieces -------------------------- *)
(* Mutant: empty strings are dropped as well as None values. *)
CleanFilters_truthy(f) == [k \in {x \in DOMAIN f : Truthy(f[x])} |-> f[k]]

(* Line 319: clean_filters = {k: v for k, v in filters.items() if v is not None} *)
CleanFilters(f) == [k \in {x \in DOMAIN f : f[x] # None} |-> f[k]]

(* Mutant: the caller's options are laid over the computed limit and       *)
(* offset, {'limit': limit, 'offset': offset, **options}.                  *)
PaginateParams_optionsWin(opts, lim, off) ==
  DictUpdate(("limit" :> lim) @@ ("offset" :> off), opts)

(* Line 415: params = {**options, 'limit': limit, 'offset': offset} *)
PaginateParams(opts, lim, off) ==
  DictUpdate(opts, ("limit" :> lim) @@ ("offset" :> off))

(* The arguments each public method passes to self.request; p is the       *)
(* mapping it passes as params, for the methods that pass one.             *)
CallArgs(o, p) ==
  CASE o = "login"    -> [endpoint |-> "/auth/login", method |-> "POST", params |-> None,
                          json_data |-> Some([email |-> "e", password |-> "p"]),
                          files |-> FALSE]
    [] o = "logout"   -> [endpoint |-> "/auth/logout", method |-> "POST", params |-> None,
                          json_data |-> None, files |-> FALSE]
    [] o \in {"paginate", "get_files"}
                      -> [endpoint |-> "/files", method |-> "GET", params |-> Some(p),
                          json_data |-> None, files |-> FALSE]
    [] o = "get_api_keys"
                      -> [endpoint |-> "/api-keys", method |-> "GET", params |-> Some(p),
                          json_data |-> None, files |-> FALSE]
    [] o = "upload_file"
                      -> [endpoint |-> "/files", method |-> "POST", params |-> None,
                          json_data |-> None, files |-> TRUE]
    [] OTHER          -> [endpoint |-> "/health", method |-> "GET", params |-> None,
                          json_data |-> None, files |-> FALSE]

(* Mutant: the copy of the session's headers keeps its Content-Type. *)
BuildRequest_keepsContentType(args, hdrs) ==
  [method |-> args.method, endpoint |-> args.endpoint, headers |-> hdrs,
   params |-> args.params,
   json |-> IF args.files THEN None ELSE args.json_data,
   files |-> args.files,
   headers_arg |-> IF args.files THEN Some(hdrs) ELSE None]

(* Lines 157-173: request_kwargs and the request session.request sends.    *)
(* The request carries the session's headers as they are at send time      *)
(* (headers). A call with files also passes a 'headers' argument, a copy   *)
(* of the session's headers without Content-Type (headers_arg), and no     *)
(* json; a call without files passes no 'headers' argument.                *)
BuildRequest(args, hdrs) ==
  [method |-> args.method, endpoint |-> args.endpoint, headers |-> hdrs,
   params |-> args.params,
   json |-> IF args.files THEN None ELSE args.json_data,
   files |-> args.files,
   headers_arg |-> IF args.files THEN Some(DictDel(hdrs, "Content-Type")) ELSE None]

(* _is_retryable_error *)
IsRetryableError(cls) == cls \in {"ConnectionError", "Timeout", "HTTPError"}

(* delay = self.retry_delay * (2 ** (attempt - 1)) *)
BackoffDelay(d, k) == d * 2 ^ (k - 1)

(* int(response.headers.get('retry-after', 60)) *)
RetryAfter(resp) ==
  IF "retry-after" \in DOMAIN resp.headers
    THEN PyInt(resp.headers["retry-after"])
    ELSE [ok |-> TRUE, val |-> DefaultRetryAfter]

(* Line 176: response.status_code == 429 *)
IsRateLimited(resp) == resp.status_code = 429

(* Mutant: every error status, not only 5xx, counts as a server error. *)
IsServerError_ge400(resp) == resp.status_code >= 400

(* Line 189: response.status_code >= 500 *)
IsServerError(resp) == resp.status_code >= 500

(* Line 196: response.status_code == 401 *)
IsUnauthorized(resp) == resp.status_code = 401

(* response.ok *)
ResponseOk(resp) == resp.status_code < 400

(* Lines 197-201: the message of an AuthenticationError. *)
AuthMessage(resp) ==
  IF resp.parsable
    THEN DictGet(DictGet(resp.doc, "error", EmptyDict), "message", "Authentication failed")
    ELSE "Authentication failed"

(* Lines 206-222: the QAPlatformError built from a non-ok response. *)
ErrorFromResponse(resp) ==
  IF resp.parsable
    THEN LET info == DictGet(resp.doc, "error", EmptyDict)
         IN  QAPlatformError(DictGet(info, "message", "Unknown error"),
                             Some(resp.status_code),
                             IF "code" \in DOMAIN info THEN Some(info["code"]) ELSE None,
                             DictGet(info, "details", <<>>))
    ELSE QAPlatformError(IF resp.text # "" THEN resp.text ELSE "Unknown error",
                         Some(resp.status_code), None, <<>>)

(* --------------------- validate_webhook_signature ---------------------- *)
(* The digest is symbolic: hmac.new(key, msg, sha256).hexdigest() is the   *)
(* term built from its key and message, so that two digests are equal      *)
(* exactly when key and message are (HMAC-SHA256 taken as collision-free). *)
Utf8(s) == "utf8(" \o s \o ")"
HexHmacSha256(key, msg) == "hex(hmac-sha256(" \o key \o "," \o msg \o "))"

Payloads == {"{}", "{\"event\":1}"}
Secrets == {"s3cret", "s3creT"}
NonAsciiSignatures == {"sig-with-U+00E9"}
Signatures == {HexHmacSha256(Utf8(s), p) : s \in Secrets, p \in Payloads}
              \cup {"", "deadbeef"} \cup NonAsciiSignatures

(* hmac.compare_digest(a, b) on two str: TypeError unless both are ASCII. *)
CompareDigest(a, b) ==
  IF a \in NonAsciiSignatures \/ b \in NonAsciiSignatures
    THEN "TypeError"
    ELSE IF a = b THEN "True" ELSE "False"

(* Lines 445-451 *)
ValidateWebhookSignature(payload, signature, secret) ==
  LET expected_signature == HexHmacSha256(Utf8(secret), payload)
  IN  CompareDigest(signature, expected_signature)

NoWebhookCall == [payload |-> "", signature |-> "", secret |-> "", result |-> "none"]

(* ------------------------------- frames -------------------------------- *)
auth    == <<api_key, jwt_token, session_headers, loginTok>>
config  == <<retry_attempts, retry_delay, ctor>>
pagvars == <<limit, offset, results, fetches, options, total>>
callvars == <<filters, file_arg, stream, webhook>>
peer    == <<peer_op, peer_pc, peer_attempt, peer_ret>>
outcome == <<done, result>>

(* ----------------------------- construction ---------------------------- *)
(* __init__: a client exists only when a credential was given. *)
Init ==
  /\ api_key \in {None} \cup {Some(k) : k \in Keys}
  /\ jwt_token \in {None} \cup {Some(t) : t \in Tokens}
  /\ Truthy(api_key) \/ Truthy(jwt_token)
  /\ session_headers = UpdateAuthHeaders(EmptyDict, api_key, jwt_token)
  /\ retry_attempts \in 0..MaxRetry
  /\ retry_delay \in 1..MaxDelay
  /\ op = "none" /\ pc = "idle"
  /\ attempt = 1 /\ response = NoResponse
  /\ sent = <<>> /\ served = <<>> /\ sleeps = <<>> /\ standby = "none"
  /\ ret = NoOutcome /\ done = "none" /\ result = NoOutcome
  /\ limit = DefaultLimit /\ offset = 0 /\ results = <<>> /\ fetches = <<>> /\ total = 0
  /\ options = EmptyDict /\ filters = EmptyDict
  /\ file_arg = "none" /\ stream = "none"
  /\ webhook = NoWebhookCall
  /\ peer_op = "none" /\ peer_pc = "idle" /\ peer_attempt = 1
  /\ peer_ret = [kind |-> "none", token |-> None]
  /\ loginTok = None
  /\ ctor = [api_key |-> api_key, jwt_token |-> jwt_token]

(* Entry into self.request(...): the locals of a fresh invocation. *)
EnterRequest ==
  /\ attempt' = 1
  /\ response' = NoResponse
  /\ sent' = <<>> /\ served' = <<>> /\ sleeps' = <<>>
  /\ standby' = "none"
  /\ ret' = NoOutcome
  /\ pc' = "loop"

(* The mapping the running method passes as params (lines 289, 320, 415). *)
MethodParams ==
  CASE op = "paginate"     -> PaginateParams(options, limit, offset)
    [] op = "get_files"    -> CleanFilters(filters)
    [] op = "get_api_keys" -> filters
    [] OTHER               -> EmptyDict

(* ------------------------- request(): the loop -------------------------- *)
(* One pass of the loop head and lines 156-173: the request is built and    *)
(* dispatched, and the server's answer (or the transport's exception)      *)
(* comes back.                                                             *)
Send ==
  /\ pc = "loop"
  /\ attempt \in PyRange(1, retry_attempts + 1)
  /\ \E a \in AnswerKinds(op) :
       LET req  == BuildRequest(CallArgs(op, MethodParams), session_headers)
           resp == ServerAnswer(a, op, req, total)
       IN  /\ sent' = Append(sent, req)
           /\ served' = Append(served, a)
           /\ response' = resp
  /\ pc' = "classify"
  /\ UNCHANGED <<auth, config, op, attempt, sleeps, standby, ret, outcome,
                 pagvars, callvars, peer>>

(* Line 234: the range is used up. *)
Exhausted ==
  /\ pc = "loop"
  /\ attempt \notin PyRange(1, retry_attempts + 1)
  /\ ret' = QAPlatformError("Max retries exceeded", None, None, <<>>)
  /\ standby' \in AnswerKinds(op)
  /\ pc' = "returned"
  /\ UNCHANGED <<auth, config, op, attempt, response, sent, served, sleeps, outcome,
                 pagvars, callvars, peer>>

(* time.sleep(secs); continue *)
SleepAndContinue(secs) ==
  /\ sleeps' = Append(sleeps, <<attempt, secs>>)
  /\ attempt' = attempt + 1
  /\ pc' = "loop"
  /\ UNCHANGED ret

(* return / raise out of request() *)
Leave(out) ==
  /\ ret' = out
  /\ pc' = "returned"
  /\ UNCHANGED <<sleeps, attempt>>

(* Lines 176-186 *)
HandleRateLimit ==
  /\ pc = "classify" /\ response.exc = None
  /\ IsRateLimited(response)
  /\ LET ra == RetryAfter(response)
     IN  IF ~ra.ok
           THEN Leave(Uncaught("ValueError", "invalid literal for int()"))
           ELSE IF attempt <= retry_attempts
                  THEN SleepAndContinue(ra.val)
                  ELSE Leave(RateLimitError("Rate limit exceeded and max retries reached",
                                            ra.val))
  /\ UNCHANGED <<auth, config, op, response, sent, served, standby, outcome,
                 pagvars, callvars, peer>>

(* Lines 189-193 *)
HandleServerError ==
  /\ pc = "classify" /\ response.exc = None
  /\ ~IsRateLimited(response)
  /\ IsServerError(response) /\ attempt <= retry_attempts
  /\ SleepAndContinue(BackoffDelay(retry_delay, attempt))
  /\ UNCHANGED <<auth, config, op, response, sent, served, standby, outcome,
                 pagvars, callvars, peer>>

(* Lines 196-202 *)
HandleAuthError ==
  /\ pc = "classify" /\ response.exc = None
  /\ ~IsRateLimited(response)
  /\ ~(IsServerError(response) /\ attempt <= retry_attempts)
  /\ IsUnauthorized(response)
  /\ Leave(AuthenticationError(AuthMessage(response)))
  /\ UNCHANGED <<auth, config, op, response, sent, served, standby, outcome,
                 pagvars, callvars, peer>>

(* Lines 205-222 *)
HandleNotOk ==
  /\ pc = "classify" /\ response.exc = None
  /\ ~IsRateLimited(response)
  /\ ~(IsServerError(response) /\ attempt <= retry_attempts)
  /\ ~IsUnauthorized(response)
  /\ ~ResponseOk(response)
  /\ Leave(ErrorFromResponse(response))
  /\ UNCHANGED <<auth, config, op, response, sent, served, standby, outcome,
                 pagvars, callvars, peer>>

(* Line 224: return response.json(). A body that is not JSON makes json()  *)
(* raise; whether that exception is a RequestException (caught at line 226 *)
(* and not retryable) or a plain ValueError depends on the installed       *)
(* requests library, so both outcomes are possible.                        *)
HandleOk ==
  /\ pc = "classify" /\ response.exc = None
  /\ ~IsRateLimited(response)
  /\ ~(IsServerError(response) /\ attempt <= retry_attempts)
  /\ ~IsUnauthorized(response)
  /\ ResponseOk(response)
  /\ IF response.parsable
       THEN Leave(Return(response.doc))
       ELSE \E viaRequestException \in BOOLEAN :
              IF viaRequestException
                THEN Leave(QAPlatformError("Network error: JSONDecodeError", None, None, <<>>))
                ELSE Leave(Uncaught("ValueError", "JSONDecodeError"))
  /\ UNCHANGED <<auth, config, op, response, sent, served, standby, outcome,
                 pagvars, callvars, peer>>

(* Lines 226-232: session.request raised a RequestException. *)
HandleException ==
  /\ pc = "classify" /\ response.exc # None
  /\ IF attempt <= retry_attempts /\ IsRetryableError(response.exc[1])
       THEN SleepAndContinue(BackoffDelay(retry_delay, attempt))
       ELSE Leave(QAPlatformError("Network error: " \o response.text, None, None, <<>>))
  /\ UNCHANGED <<auth, config, op, response, sent, served, standby, outcome,
                 pagvars, callvars, peer>>

RequestStep ==
  \/ Send
  \/ Exhausted
  \/ HandleRateLimit
  \/ HandleServerError
  \/ HandleAuthError
  \/ HandleNotOk
  \/ HandleOk
  \/ HandleException

(* The public method ends: its caller holds what it returned or raised. *)
Finish(out) ==
  /\ done' = op
  /\ result' = out
  /\ op' = "none"
  /\ pc' = "done"
  /\ UNCHANGED <<attempt, response, sent, served, sleeps, standby, ret>>

(* The caller goes on; the finished call's locals and its result are gone, *)
(* the client object stays as the call left it.                            *)
Resume ==
  /\ pc = "done"
  /\ pc' = "idle"
  /\ done' = "none" /\ result' = NoOutcome
  /\ attempt' = 1 /\ response' = NoResponse
  /\ sent' = <<>> /\ served' = <<>> /\ sleeps' = <<>> /\ standby' = "none"
  /\ ret' = NoOutcome
  /\ limit' = DefaultLimit /\ offset' = 0 /\ results' = <<>> /\ fetches' = <<>>
  /\ total' = 0
  /\ options' = EmptyDict /\ filters' = EmptyDict
  /\ UNCHANGED <<auth, config, op, file_arg, stream, webhook, peer>>

(* A public method starts on the idle client. *)
Begin(o) ==
  /\ pc = "idle"
  /\ op' = o
  /\ EnterRequest
  /\ UNCHANGED outcome

(* ------------------------ health_check / request ------------------------ *)
CallRequest ==
  /\ Begin("request")
  /\ UNCHANGED <<auth, config, pagvars, callvars, peer>>

ReturnRequest ==
  /\ op = "request" /\ pc = "returned"
  /\ Finish(ret)
  /\ UNCHANGED <<auth, config, pagvars, callvars, peer>>

(* Lines 246-248: health_check is return self.request('/health'). *)
CallHealthCheck ==
  /\ Begin("health_check")
  /\ UNCHANGED <<auth, config, pagvars, callvars, peer>>

HealthCheckReturn ==
  /\ op = "health_check" /\ pc = "returned"
  /\ Finish(ret)
  /\ UNCHANGED <<auth, config, pagvars, callvars, peer>>

(* -------------------------------- login --------------------------------- *)
CallLogin ==
  /\ Begin("login")
  /\ UNCHANGED <<auth, config, pagvars, callvars, peer>>

(* Mutant: the token is stored but the session headers are not rebuilt. *)
LoginReturn_keepsHeaders ==
  /\ op = "login" /\ pc = "returned"
  /\ IF ret.kind = "return" /\ "token" \in DOMAIN ret.value
       THEN /\ jwt_token' = Some(ret.value["token"])
            /\ api_key' = None
            /\ loginTok' = Some(ret.value["token"])
            /\ UNCHANGED session_headers
       ELSE UNCHANGED auth
  /\ Finish(ret)
  /\ UNCHANGED <<config, pagvars, callvars, peer>>

(* Lines 271-277, or the exception of line 266 passing through. *)
LoginReturn ==
  /\ op = "login" /\ pc = "returned"
  /\ IF ret.kind = "return" /\ "token" \in DOMAIN ret.value
       THEN /\ jwt_token' = Some(ret.value["token"])
            /\ api_key' = None
            /\ session_headers' = UpdateAuthHeaders(session_headers, api_key', jwt_token')
            /\ loginTok' = Some(ret.value["token"])
       ELSE UNCHANGED auth
  /\ Finish(ret)
  /\ UNCHANGED <<config, pagvars, callvars, peer>>

(* -------------------------------- logout -------------------------------- *)
CallLogout ==
  /\ Begin("logout")
  /\ UNCHANGED <<auth, config, pagvars, callvars, peer>>

(* Mutant: the token is dropped whether the logout request succeeded or not. *)
LogoutReturn_always ==
  /\ op = "logout" /\ pc = "returned"
  /\ jwt_token' = None
  /\ session_headers' = UpdateAuthHeaders(session_headers, api_key, jwt_token')
  /\ loginTok' = None
  /\ UNCHANGED api_key
  /\ Finish(ret)
  /\ UNCHANGED <<config, pagvars, callvars, peer>>

(* Lines 282-284, or the exception of line 281 passing through. *)
LogoutReturn ==
  /\ op = "logout" /\ pc = "returned"
  /\ IF ret.kind = "return"
       THEN /\ jwt_token' = None
            /\ session_headers' = UpdateAuthHeaders(session_headers, api_key, jwt_token')
            /\ loginTok' = None
            /\ UNCHANGED api_key
       ELSE UNCHANGED auth
  /\ Finish(ret)
  /\ UNCHANGED <<config, pagvars, callvars, peer>>

(* ------------------------------- paginate ------------------------------- *)
(* What a caller of paginate may pass besides limit: an offset or none, a  *)
(* status filter or none.                                                  *)
CallerOffsets == {None, Some(1)}
CallerStatuses == {None, Some("completed")}

(* Lines 410-416: the locals, then the first self.request. The caller's     *)
(* options hold a limit or not; the server holds a collection of n items.   *)
CallPaginate ==
  /\ \E l \in {None} \cup {Some(x) : x \in 1..MaxLimit},
        o \in CallerOffsets, st \in CallerStatuses, n \in 0..MaxItems :
       LET given == (IF l = None THEN EmptyDict ELSE "limit" :> l[1])
                    @@ (IF o = None THEN EmptyDict ELSE "offset" :> o[1])
                    @@ (IF st = None THEN EmptyDict ELSE "status" :> st[1])
       IN  /\ limit' = DictGet(given, "limit", DefaultLimit)
           /\ options' = DictDel(given, "limit")
           /\ total' = n
           /\ fetches' = <<PaginateParams(options', limit', 0)>>
  /\ offset' = 0
  /\ results' = <<>>
  /\ Begin("paginate")
  /\ UNCHANGED <<auth, config, callvars, peer>>

(* Mutant: a failed page fetch ends the loop and what was gathered is       *)
(* returned.                                                               *)
PaginateStep_partial ==
  /\ op = "paginate" /\ pc = "returned"
  /\ ret.kind # "return"
  /\ Finish(Return(results))
  /\ UNCHANGED <<pagvars, auth, config, callvars, peer>>

(* Lines 416-429 after self.request came back: the exception passes        *)
(* through, or the page is added and the loop goes on or breaks.           *)
PaginateStep ==
  /\ op = "paginate" /\ pc = "returned"
  /\ IF ret.kind # "return"
       THEN /\ Finish(ret)
            /\ UNCHANGED pagvars
       ELSE LET resp == ret.value
                data == DictGet(resp, "data", <<>>)
            IN  IF "data" \in DOMAIN resp /\ data # <<>>
                  THEN /\ results' = results \o data
                       /\ offset' = offset + limit
                       /\ IF \/ Len(data) < limit
                             \/ DictGet(DictGet(resp, "pagination", EmptyDict), "total", 0)
                                  <= offset'
                            THEN /\ Finish(Return(results'))
                                 /\ UNCHANGED fetches
                            ELSE /\ EnterRequest
                                 /\ fetches' = Append(fetches,
                                                      PaginateParams(options, limit, offset'))
                                 /\ UNCHANGED <<op, outcome>>
                       /\ UNCHANGED <<limit, options, total>>
                  ELSE /\ Finish(Return(results))
                       /\ UNCHANGED pagvars
  /\ UNCHANGED <<auth, config, callvars, peer>>

(* ----------------------- get_files / get_api_keys ----------------------- *)
(* What a caller may pass as **filters: any of two keys, each with None,   *)
(* the empty string or a value.                                            *)
FilterKeys == {"status", "search"}
FilterValues == {None, Some(""), Some("completed")}
FilterMappings == UNION {[K -> FilterValues] : K \in SUBSET FilterKeys}

(* Lines 308-320 up to the call of self.request. *)
CallGetFiles ==
  /\ filters' \in FilterMappings
  /\ Begin("get_files")
  /\ UNCHANGED <<auth, config, pagvars, file_arg, stream, webhook, peer>>

(* Lines 287-289 up to the call of self.request. *)
CallGetApiKeys ==
  /\ filters' \in FilterMappings
  /\ Begin("get_api_keys")
  /\ UNCHANGED <<auth, config, pagvars, file_arg, stream, webhook, peer>>

(* Lines 289 and 320: return self.request(...). *)
FiltersReturn ==
  /\ op \in {"get_files", "get_api_keys"} /\ pc = "returned"
  /\ Finish(ret)
  /\ UNCHANGED <<auth, config, pagvars, callvars, peer>>

(* ------------------------------ upload_file ----------------------------- *)
(* What a caller may pass as file_path: the path of a readable file, a     *)
(* path that does not exist, the path of a file that cannot be opened, or  *)
(* an open file object of its own.                                         *)
FileArgs == {"path", "missing", "unreadable", "object"}

(* Lines 339-351 and 353-371 up to the call of self.request: the checks    *)
(* and open() raise before any stream exists; otherwise the stream is open *)
(* (opened at line 344, or the caller's) when request() starts.            *)
CallUpload ==
  /\ pc = "idle"
  /\ \E f \in FileArgs :
       /\ file_arg' = f
       /\ IF f \in {"missing", "unreadable"}
            THEN /\ stream' = "none"
                 /\ done' = "upload_file"
                 /\ result' = Uncaught(IF f = "missing" THEN "FileNotFoundError"
                                                        ELSE "PermissionError", "")
                 /\ pc' = "done"
                 /\ UNCHANGED <<op, attempt, response, sent, served, sleeps, standby, ret>>
            ELSE /\ stream' = "open"
                 /\ Begin("upload_file")
  /\ UNCHANGED <<auth, config, pagvars, filters, webhook, peer>>

(* Mutant: the stream is closed after the upload returned, not when it     *)
(* raised.                                                                 *)
UploadReturn_closeOnSuccess ==
  /\ op = "upload_file" /\ pc = "returned"
  /\ stream' = IF file_arg = "path" /\ ret.kind = "return" THEN "closed" ELSE stream
  /\ Finish(ret)
  /\ UNCHANGED <<auth, config, pagvars, filters, file_arg, webhook, peer>>

(* Lines 344-351 after _upload_with_files came back: leaving the with      *)
(* block closes the stream it opened, on return and on exception; a file   *)
(* object of the caller is left as it is.                                  *)
UploadReturn ==
  /\ op = "upload_file" /\ pc = "returned"
  /\ stream' = IF file_arg = "path" THEN "closed" ELSE stream
  /\ Finish(ret)
  /\ UNCHANGED <<auth, config, pagvars, filters, file_arg, webhook, peer>>

(* ------------------- a second thread: login and logout ------------------ *)
(* A second thread calls login or logout on the same client while the      *)
(* first one makes requests. The client has no lock: the statements of     *)
(* login, logout and _update_auth_headers interleave with the first        *)
(* thread's steps, and a request is sent with the session's headers as     *)
(* they are at that moment.                                                *)
BaseOrder == <<"User-Agent", "Accept", "Content-Type">>

PeerNoOutcome == [kind |-> "none", token |-> None]

(* What request() makes of the answer a on an attempt with retries left:   *)
(* "retry", or the outcome it leaves with.                                 *)
PeerClassify(a, o) ==
  LET resp == ServerAnswer(a, o, BuildRequest(CallArgs(o, EmptyDict), session_headers), 0)
  IN  IF resp.exc # None
        THEN IF IsRetryableError(resp.exc[1]) THEN "retry" ELSE "raise"
        ELSE IF IsRateLimited(resp)
               THEN IF RetryAfter(resp).ok THEN "retry" ELSE "raise"
               ELSE IF IsServerError(resp) THEN "retry"
               ELSE IF IsUnauthorized(resp) \/ ~ResponseOk(resp) THEN "raise"
               ELSE IF resp.parsable THEN "return" ELSE "raise"

(* The peer's call is over and its locals are gone. *)
PeerLeave ==
  /\ peer_pc' = "idle" /\ peer_op' = "none"
  /\ peer_attempt' = 1
  /\ peer_ret' = PeerNoOutcome

PeerCall(o) ==
  /\ peer_pc = "idle"
  /\ peer_op' = o
  /\ peer_pc' = "loop"
  /\ peer_attempt' = 1
  /\ peer_ret' = PeerNoOutcome
  /\ UNCHANGED <<auth, config, op, pc, attempt, response, sent, served, sleeps, standby,
                 ret, outcome, pagvars, callvars>>

PeerCallLogin == PeerCall("login")

PeerCallLogout == PeerCall("logout")

(* The peer's request(), lines 154-234: one pass of the loop with its      *)
(* dispatch, the answer and what the pass makes of it, or the range used   *)
(* up.                                                                     *)
PeerRequestStep ==
  /\ peer_pc = "loop"
  /\ IF peer_attempt \in PyRange(1, retry_attempts + 1)
       THEN \E a \in AnswerKinds(peer_op) :
              LET c == PeerClassify(a, peer_op)
              IN  IF c = "retry" /\ peer_attempt <= retry_attempts
                    THEN /\ peer_attempt' = peer_attempt + 1
                         /\ UNCHANGED <<peer_pc, peer_ret>>
                    ELSE /\ peer_ret' = [kind |-> IF c = "return" THEN "return" ELSE "raise",
                                         token |-> IF a \in TokenAnswers
                                                     THEN Some(TokenOf(a)) ELSE None]
                         /\ peer_pc' = "returned"
                         /\ UNCHANGED peer_attempt
       ELSE /\ peer_ret' = [kind |-> "raise", token |-> None]
            /\ peer_pc' = "returned"
            /\ UNCHANGED peer_attempt
  /\ UNCHANGED <<auth, config, op, pc, attempt, response, sent, served, sleeps, standby,
                 ret, outcome, pagvars, callvars, peer_op>>

(* Lines 272-274 of login and line 282 of logout: the fields are written,  *)
(* the headers not yet; or the exception of request() passes through and   *)
(* the call is over.                                                       *)
PeerStore ==
  /\ peer_pc = "returned"
  /\ IF peer_ret.kind = "return" /\ (peer_op = "login" => peer_ret.token # None)
       THEN /\ jwt_token' = IF peer_op = "login" THEN peer_ret.token ELSE None
            /\ api_key' = IF peer_op = "login" THEN None ELSE api_key
            /\ loginTok' = jwt_token'
            /\ peer_pc' = "clear"
            /\ UNCHANGED <<session_headers, peer_op>>
            /\ UNCHANGED <<peer_attempt, peer_ret>>
       ELSE /\ PeerLeave
            /\ UNCHANGED auth
  /\ UNCHANGED <<config, op, pc, attempt, response, sent, served, sleeps, standby,
                 ret, outcome, pagvars, callvars>>

(* Line 112: self.session.headers.clear() *)
PeerClear ==
  /\ peer_pc = "clear"
  /\ session_headers' = DictClear(session_headers)
  /\ peer_pc' = "defaults"
  /\ UNCHANGED <<api_key, jwt_token, loginTok, config, op, pc, attempt, response, sent,
                 served, sleeps, standby, ret, outcome, pagvars, callvars,
                 peer_op, peer_attempt, peer_ret>>

(* Lines 113-117: self.session.headers.update({...}) sets the three        *)
(* defaults one key after the other.                                       *)
PeerDefaults ==
  /\ peer_pc = "defaults"
  /\ LET missing == {i \in 1..Len(BaseOrder) : BaseOrder[i] \notin DOMAIN session_headers}
         i == CHOOSE m \in missing : \A n \in missing : m <= n
     IN  /\ session_headers' = DictUpdate(session_headers,
                                          BaseOrder[i] :> BaseHeaders[BaseOrder[i]])
         /\ peer_pc' = IF missing = {i} THEN "auth" ELSE "defaults"
  /\ UNCHANGED <<api_key, jwt_token, loginTok, config, op, pc, attempt, response, sent,
                 served, sleeps, standby, ret, outcome, pagvars, callvars,
                 peer_op, peer_attempt, peer_ret>>

(* Lines 119-122: the credential header, and the call is over. *)
PeerAuth ==
  /\ peer_pc = "auth"
  /\ session_headers' =
       IF Truthy(jwt_token)
         THEN DictUpdate(session_headers, "Authorization" :> ("Bearer " \o jwt_token[1]))
         ELSE IF Truthy(api_key)
                THEN DictUpdate(session_headers, "X-API-Key" :> api_key[1])
                ELSE session_headers
  /\ PeerLeave
  /\ UNCHANGED <<api_key, jwt_token, loginTok, config, op, pc, attempt, response, sent,
                 served, sleeps, standby, ret, outcome, pagvars, callvars>>

(* ------------------------------- webhooks ------------------------------- *)
(* The static method is called with some payload, signature and secret.    *)
CallValidateWebhookSignature ==
  /\ \E p \in Payloads, sig \in Signatures, s \in Secrets :
       webhook' = [payload |-> p, signature |-> sig, secret |-> s,
                   result |-> ValidateWebhookSignature(p, sig, s)]
  /\ UNCHANGED <<auth, config, op, pc, attempt, response, sent, served, sleeps, standby,
                 ret, outcome, pagvars, filters, file_arg, stream, peer>>

(* ---------------------------- specification ----------------------------- *)
(* A caller that uses request (health_check), login and logout. *)
Next ==
  \/ CallRequest
  \/ CallLogin
  \/ CallLogout
  \/ RequestStep
  \/ ReturnRequest
  \/ LoginReturn
  \/ LogoutReturn
  \/ Resume

Spec == Init /\ [][Next]_vars

(* A caller that paginates, on a client built with an API key and the      *)
(* smallest delay: paginate reads neither the credential nor the delay.    *)
InitPaginate ==
  /\ Init
  /\ api_key = Some("key-1") /\ jwt_token = None
  /\ retry_delay = 1

NextPaginate ==
  \/ CallPaginate
  \/ RequestStep
  \/ PaginateStep
  \/ Resume

SpecPaginate == InitPaginate /\ [][NextPaginate]_vars

(* A caller that lists files and API keys with filters. *)
NextFiles ==
  \/ CallGetFiles
  \/ CallGetApiKeys
  \/ RequestStep
  \/ FiltersReturn
  \/ Resume

SpecFiles == InitPaginate /\ [][NextFiles]_vars

(* A caller that uploads files and makes plain requests, on a client built *)
(* with any credential.                                                    *)
InitUpload ==
  /\ Init
  /\ retry_delay = 1

NextUpload ==
  \/ CallUpload
  \/ CallRequest
  \/ RequestStep
  \/ UploadReturn
  \/ ReturnRequest
  \/ Resume

SpecUpload == InitUpload /\ [][NextUpload]_vars

(* A caller that validates webhook signatures, next to any client. *)
NextWebhook == CallValidateWebhookSignature

SpecWebhook == Init /\ [][NextWebhook]_vars

(* One thread makes health checks while a second one logs in and out, on  *)
(* a client built with an API key.                                         *)
NextConcurrent ==
  \/ CallHealthCheck
  \/ RequestStep
  \/ HealthCheckReturn
  \/ Resume
  \/ PeerCallLogin
  \/ PeerCallLogout
  \/ PeerRequestStep
  \/ PeerStore
  \/ PeerClear
  \/ PeerDefaults
  \/ PeerAuth

SpecConcurrent == InitPaginate /\ [][NextConcurrent]_vars

(* ======================= properties of request() ======================= *)
(* The answers the server gave to this invocation, followed by the one it  *)
(* had ready when the client stopped asking.                               *)
Script == IF standby = "none" THEN served ELSE Append(served, standby)

(* The server answers every dispatch of this invocation with a kind of K. *)
AlwaysAnswers(K) == \A i \in 1..Len(Script) : Script[i] \in K

RequestEnded == pc = "returned"

(* The back-off sleeps of attempts 1..n: attempt k sleeps retry_delay * 2^(k-1). *)
BackoffSleeps(n) == [k \in 1..n |-> <<k, retry_delay * 2 ^ (k - 1)>>]

IsNetworkFailure(out) ==
  /\ out.kind = "raise" /\ out.cls = "QAPlatformError"
  /\ out.message \in {"Network error: " \o c :
                        c \in {"ConnectionError", "Timeout", "TooManyRedirects"}}

IsRetriesExhausted(out) ==
  /\ out.kind = "raise" /\ out.cls = "QAPlatformError"
  /\ out.message = "Max retries exceeded"

(* C1: a request() against a server that answers every dispatch with HTTP  *)
(* 500 ends in a QAPlatformError carrying status 500 and the parsed error  *)
(* body, never in "Max retries exceeded".                                  *)
C1_Always500EndsInRequestFailed ==
  (RequestEnded /\ AlwaysAnswers({"500"}))
    => /\ ret = QAPlatformError("denied", Some(500), Some("E_DENIED"), <<"reason">>)
       /\ ~IsRetriesExhausted(ret)

(* C2: against a server that always answers 500, request() dispatches      *)
(* retry_attempts + 1 requests and sleeps retry_attempts times, the k-th   *)
(* sleep lasting retry_delay * 2^(k-1).                                    *)
C2_Always500DispatchesAndSleeps ==
  (RequestEnded /\ AlwaysAnswers({"500"}))
    => /\ Len(sent) = retry_attempts + 1
       /\ sleeps = BackoffSleeps(retry_attempts)

(* C3: against a server that answers every dispatch with 429 and           *)
(* retry-after 5, the attempt with no retry left fails with RateLimitError *)
(* carrying retry_after 5; with retry_attempts = 0 that is after one       *)
(* dispatch and no sleep.                                                  *)
C3_RateLimitedWhenNoRetryLeft ==
  (RequestEnded /\ AlwaysAnswers({"429:5"}))
    => /\ ret = RateLimitError("Rate limit exceeded and max retries reached", 5)
       /\ Len(sent) = retry_attempts + 1
       /\ sleeps = [k \in 1..retry_attempts |-> <<k, 5>>]

(* C4: a 401 answer is the last one of its invocation: the attempt that    *)
(* received it sleeps not, no dispatch follows it, and the invocation      *)
(* raises AuthenticationError, however many attempts remain.               *)
C4_UnauthorizedIsNeverRetried ==
  \A i \in 1..Len(served) :
    served[i] \in {"401", "401:text"}
      => /\ i = Len(served)
         /\ \A j \in 1..Len(sleeps) : sleeps[j][1] # i
         /\ pc \in {"classify", "returned", "done"}
         /\ pc # "classify"
              => /\ ret \in {AuthenticationError("denied"),
                             AuthenticationError("Authentication failed")}
                 /\ ret.status_code = Some(401)

(* Witness of C4: a 401 on an attempt with retries left ended the call. *)
C4_Witness ==
  /\ RequestEnded
  /\ Len(served) >= 1 /\ Len(served) < retry_attempts
  /\ served[Len(served)] = "401"
  /\ ret.cls = "AuthenticationError"
  /\ Len(sleeps) = Len(served) - 1

(* ========================= properties of AuthState ====================== *)
HasBearer(h, t) == "Authorization" \in DOMAIN h /\ h["Authorization"] = "Bearer " \o t
HasAuthorization(h) == "Authorization" \in DOMAIN h
HasApiKey(h) == "X-API-Key" \in DOMAIN h

(* C5: after a login whose response held token t (and until a logout       *)
(* completes or a later login stores another token), the session headers   *)
(* and every request dispatched carry Authorization: Bearer t and no       *)
(* X-API-Key header. The requests of the login call itself were sent       *)
(* before the token was stored and are not "later" ones.                   *)
C5_BearerAfterLogin ==
  loginTok # None
    => /\ HasBearer(session_headers, loginTok[1])
       /\ ~HasApiKey(session_headers)
       /\ ~(pc = "done" /\ done = "login")
            => \A i \in 1..Len(sent) :
                 /\ HasBearer(sent[i].headers, loginTok[1])
                 /\ ~HasApiKey(sent[i].headers)

(* Witness of C5: a client built with an API key only has logged in and    *)
(* a later request of it has been dispatched.                              *)
C5_Witness ==
  /\ ctor = [api_key |-> Some("key-1"), jwt_token |-> None]
  /\ loginTok = Some("tok-B")
  /\ op = "request" /\ pc = "classify"
  /\ Len(sent) >= 1
  /\ HasBearer(sent[Len(sent)].headers, "tok-B")

(* C6 as stated: in every reachable state exactly one of Authorization and *)
(* X-API-Key is in the session headers (never none, never both).           *)
C6_ExactlyOneCredential ==
  HasAuthorization(session_headers) # HasApiKey(session_headers)

(* C6 amended: never both headers; the header present is the bearer token  *)
(* when jwt_token is set, else the API key when api_key is set; and the    *)
(* client loses its last credential only in the step that ends a logout    *)
(* whose request succeeded.                                                *)
AtMostOneCredential ==
  /\ ~(HasAuthorization(session_headers) /\ HasApiKey(session_headers))
  /\ HasAuthorization(session_headers) <=> Truthy(jwt_token)
  /\ HasApiKey(session_headers) <=> (~Truthy(jwt_token) /\ Truthy(api_key))
  /\ Truthy(jwt_token) => HasBearer(session_headers, jwt_token[1])

NoCredential == ~HasAuthorization(session_headers) /\ ~HasApiKey(session_headers)

C6_AtMostOneCredential ==
  /\ []AtMostOneCredential
  /\ [][(~NoCredential /\ NoCredential')
          => (op = "logout" /\ pc = "returned" /\ ret.kind = "return" /\ pc' = "done")]_vars
  /\ [][(NoCredential /\ ~NoCredential')
          => (op = "login" /\ pc = "returned" /\ ret.kind = "return"
              /\ "token" \in DOMAIN ret.value)]_vars

(* Witness of C6: a client built with an API key, after a login and a      *)
(* logout that both succeeded, holds no credential.                        *)
C6_Witness ==
  /\ ctor = [api_key |-> Some("key-1"), jwt_token |-> None]
  /\ pc = "done" /\ done = "logout" /\ result.kind = "return"
  /\ NoCredential
  /\ api_key = None /\ jwt_token = None

(* ==================== retries as seen by the caller ==================== *)
OkAnswers == {"200"} \cup TokenAnswers

(* C7: if the server answers the first k dispatches (k <= retry_attempts)   *)
(* with retryable outcomes and dispatch k+1 with a 2xx JSON response, the   *)
(* invocation makes that dispatch and returns its parsed body.             *)
C7_RetriesAreInvisible ==
  \A k \in 0..retry_attempts :
    ( /\ RequestEnded
      /\ Len(Script) >= k + 1
      /\ \A i \in 1..k : Script[i] \in RetryableAnswers
      /\ Script[k + 1] \in OkAnswers )
    => /\ Len(served) = k + 1
       /\ ret = Return(response.doc)

(* C9: a transport that fails every dispatch with a connection error or a  *)
(* timeout makes the invocation end in "Network error: ..." after          *)
(* retry_attempts back-off sleeps; a transport error that is not retryable *)
(* ends it in "Network error: ..." with no sleep in that attempt.          *)
C9_TransportFailureIsNetworkFailure ==
  /\ (RequestEnded /\ AlwaysAnswers({"ConnectionError", "Timeout"}))
       => /\ IsNetworkFailure(ret)
          /\ sleeps = BackoffSleeps(retry_attempts)
  /\ (RequestEnded /\ served # <<>> /\ served[Len(served)] = "TooManyRedirects")
       => /\ IsNetworkFailure(ret)
          /\ \A j \in 1..Len(sleeps) : sleeps[j][1] # Len(served)

(* =============================== paginate =============================== *)
Ceil(a, b) == (a + b - 1) \div b
Max(a, b) == IF a >= b THEN a ELSE b
Items(n) == [i \in 1..n |-> i]

PaginateEnded == pc = "done" /\ done = "paginate"

(* C8: when the server serves its collection (every dispatch of the fetch  *)
(* that ended the call got a 2xx page), paginate returns the items 1..total *)
(* in order, each once, in max(1, ceil(total / limit)) page fetches.       *)
C8_PaginateReturnsAllItems ==
  (PaginateEnded /\ AlwaysAnswers({"200"}))
    => /\ result = Return(Items(total))
       /\ Len(fetches) = Max(1, Ceil(total, limit))

(* With at least one attempt configured the same statement holds: the only *)
(* runs that break C8 are those of a client with retry_attempts = 0, whose *)
(* request() never dispatches.                                             *)
PaginateReturnsAllItemsGivenAnAttempt ==
  retry_attempts >= 1 => C8_PaginateReturnsAllItems

(* C10: request() returns a value only for a 2xx response, and that value  *)
(* is the response's body; a page fetch that raises makes paginate raise    *)
(* the same error, and paginate returns a list only when its last fetch     *)
(* returned.                                                               *)
C10_NoPartialResult ==
  /\ (pc \in {"returned", "done"} /\ ret.kind = "return")
       => /\ served # <<>>
          /\ response.exc = None
          /\ response.status_code \in 200..299
          /\ ret.value = response.doc
  /\ (PaginateEnded /\ ret.kind = "raise")
       => /\ result = ret
          /\ result.value = EmptyDict
  /\ (PaginateEnded /\ result.kind = "return") => ret.kind = "return"

(* Witness of C10: the second page fetch failed after the first page had   *)
(* been gathered, and paginate raised.                                     *)
C10_Witness ==
  /\ PaginateEnded
  /\ Len(fetches) = 2 /\ results # <<>>
  /\ ret.kind = "raise" /\ ret.cls = "AuthenticationError"
  /\ result = ret

(* ============================ rate limiting ============================ *)
RateLimitAnswers == {"429", "429:5", "429:date"}

(* The delay a 429 answer asks for: its retry-after header read as an      *)
(* integer, the default when the header is missing or is not an integer.   *)
RateLimitDelay(a) == IF a = "429:5" THEN 5 ELSE DefaultRetryAfter

CallEnded == pc \in {"returned", "done"}

(* C11: once the invocation has ended, every 429 answer it received was    *)
(* either slept on for the retry-after value (60 when the header is        *)
(* missing or not an integer) and followed by another dispatch, or was the *)
(* last answer and made the invocation raise RateLimitError with that      *)
(* value; no 429 ends the invocation in another kind of error.             *)
C11_RateLimitDelayOrRateLimited ==
  CallEnded =>
    \A i \in 1..Len(served) :
      served[i] \in RateLimitAnswers
        => \/ /\ \E j \in 1..Len(sleeps) : sleeps[j] = <<i, RateLimitDelay(served[i])>>
              /\ i < Len(served)
           \/ /\ i = Len(served)
              /\ ret.cls = "RateLimitError"
              /\ ret.retry_after = Some(RateLimitDelay(served[i]))

(* C14: once the invocation has ended, every sleep it made belongs to an   *)
(* attempt that was followed by another dispatch: the attempt of the last  *)
(* dispatch slept not.                                                     *)
C14_NoSleepAfterLastDispatch ==
  CallEnded => \A j \in 1..Len(sleeps) : sleeps[j][1] < Len(sent)

(* ============================ AuthState frame =========================== *)
AuthState == <<api_key, jwt_token, session_headers>>

LoginStoresToken ==
  /\ op = "login" /\ pc = "returned"
  /\ ret.kind = "return" /\ "token" \in DOMAIN ret.value
  /\ response.status_code \in 200..299
  /\ jwt_token' = Some(ret.value["token"])

LogoutSucceeded ==
  /\ op = "logout" /\ pc = "returned"
  /\ ret.kind = "return"
  /\ response.status_code \in 200..299
  /\ jwt_token' = None

(* C16: api_key, jwt_token and the session headers change only in the step *)
(* that ends a login whose 2xx response held a token, or a logout whose    *)
(* request succeeded; every other step (a failed login or logout, a login  *)
(* answered without a token, any step of another call) leaves them as      *)
(* they were.                                                              *)
C16_AuthStateFrame ==
  [][(AuthState' # AuthState) => (LoginStoresToken \/ LogoutSucceeded)]_vars

(* Witness of C16: a login failed, a login was answered without a token or *)
(* a logout failed, and the client is as the constructor built it.         *)
C16_Witness ==
  /\ pc = "done" /\ done \in {"login", "logout"}
  /\ \/ result.kind = "raise"
     \/ done = "login" /\ result.kind = "return" /\ "token" \notin DOMAIN result.value
  /\ served # <<>>
  /\ ctor.jwt_token # None
  /\ api_key = ctor.api_key /\ jwt_token = ctor.jwt_token
  /\ session_headers = UpdateAuthHeaders(EmptyDict, ctor.api_key, ctor.jwt_token)

(* ========================= paginate: the fetches ======================== *)
PaginateStarted == op = "paginate" \/ PaginateEnded

(* What every page fetch has in common: the limit is the caller's (or the  *)
(* default), fetch k+1 asks for the offset of fetch k plus the limit, the  *)
(* caller's other options are passed as given, and the requests            *)
(* dispatched for the current fetch carry exactly its parameters.          *)
FetchesAdvanceByLimit ==
  /\ \A k \in 1..Len(fetches) :
       /\ DOMAIN fetches[k] = (DOMAIN options) \cup {"limit", "offset"}
       /\ fetches[k]["limit"] = limit
       /\ \A x \in (DOMAIN options) \ {"offset"} : fetches[k][x] = options[x]
       /\ k > 1 => fetches[k]["offset"] = fetches[k - 1]["offset"] + limit
  /\ \A i \in 1..Len(sent) : sent[i].params = Some(fetches[Len(fetches)])

(* C17 as stated: the first fetch asks for the caller's offset when one    *)
(* was given, else 0; the limit, the later offsets and the other options   *)
(* are as above.                                                           *)
C17_FirstFetchAtCallerOffset ==
  PaginateStarted
    => /\ fetches[1]["offset"] = DictGet(options, "offset", 0)
       /\ FetchesAdvanceByLimit

(* C17 amended: the first fetch asks for offset 0 whether or not the       *)
(* caller gave an offset; the rest as above.                               *)
C17_FirstFetchAtZero ==
  PaginateStarted
    => /\ fetches[1]["offset"] = 0
       /\ FetchesAdvanceByLimit

(* Witness of C17: a caller that passed limit, offset 1 and a status got   *)
(* its list after more than one page fetch.                                *)
C17_Witness ==
  /\ PaginateEnded /\ result.kind = "return"
  /\ options = ("offset" :> 1) @@ ("status" :> "completed")
  /\ limit \in 1..MaxLimit
  /\ Len(fetches) >= 2
  /\ fetches[1]["offset"] = 0 /\ fetches[2]["offset"] = limit
  /\ fetches[2]["status"] = "completed"

(* ============================ query parameters ========================== *)
FiltersCall(o) == op = o \/ (pc = "done" /\ done = o)

(* The value is None or the empty string. *)
IsBlank(v) == v = None \/ v = Some("")

(* C12 as stated: of the mapping passed to get_files, and of the one       *)
(* get_api_keys passes straight to request, the entries whose value is     *)
(* None or "" are not in the params of a dispatched request and every      *)
(* other entry is, unchanged.                                              *)
C12_BlankFiltersDropped ==
  (FiltersCall("get_files") \/ FiltersCall("get_api_keys"))
    => \A i \in 1..Len(sent) :
         LET p == sent[i].params[1]
         IN  /\ DOMAIN p = {k \in DOMAIN filters : ~IsBlank(filters[k])}
             /\ \A k \in DOMAIN p : p[k] = filters[k]

(* C12 amended: get_files drops the entries whose value is None and passes *)
(* every other entry, the empty string included, unchanged; request()      *)
(* drops nothing: the mapping get_api_keys hands it is the params of each  *)
(* dispatched request as given.                                            *)
C12_NoneFiltersDropped ==
  /\ FiltersCall("get_files")
       => \A i \in 1..Len(sent) :
            LET p == sent[i].params[1]
            IN  /\ DOMAIN p = {k \in DOMAIN filters : filters[k] # None}
                /\ \A k \in DOMAIN p : p[k] = filters[k]
  /\ FiltersCall("get_api_keys")
       => \A i \in 1..Len(sent) : sent[i].params = Some(filters)

(* Witness of C12: get_files(status="", search=None) dispatched a request  *)
(* whose params hold status="" and no search.                              *)
C12_Witness ==
  /\ op = "get_files" /\ pc = "classify"
  /\ filters = ("status" :> Some("")) @@ ("search" :> None)
  /\ sent[Len(sent)].params = Some("status" :> Some(""))

(* ================================ upload ================================ *)
(* C18: the 'headers' argument built for each attempt of a call with files *)
(* is the session's headers without Content-Type: it holds the             *)
(* credential header, Accept and User-Agent as the session has them. The   *)
(* session's headers stay as the constructor set them, Content-Type        *)
(* included, and a request without files passes no 'headers' argument and  *)
(* goes out under the session's headers.                                   *)
C18_MultipartOmitsContentType ==
  /\ session_headers = UpdateAuthHeaders(EmptyDict, ctor.api_key, ctor.jwt_token)
  /\ session_headers["Content-Type"] = "application/json"
  /\ \A i \in 1..Len(sent) :
       IF sent[i].files
         THEN /\ sent[i].headers_arg # None
              /\ LET h == sent[i].headers_arg[1]
                 IN  /\ "Content-Type" \notin DOMAIN h
                     /\ DOMAIN h = (DOMAIN session_headers) \ {"Content-Type"}
                     /\ \A k \in DOMAIN h : h[k] = session_headers[k]
                     /\ {"Accept", "User-Agent"} \subseteq DOMAIN h
                     /\ HasAuthorization(h) \/ HasApiKey(h)
         ELSE /\ sent[i].headers_arg = None
              /\ sent[i].headers = session_headers

(* Witness of C18: an upload that was retried has returned; both of its    *)
(* attempts were built without Content-Type and the session still has it.  *)
C18_Witness ==
  /\ pc = "done" /\ done = "upload_file" /\ result.kind = "return"
  /\ Len(sent) = 2
  /\ \A i \in 1..2 : /\ sent[i].files
                      /\ "Content-Type" \notin DOMAIN sent[i].headers_arg[1]
                      /\ HasApiKey(sent[i].headers_arg[1])
  /\ "Content-Type" \in DOMAIN session_headers

(* C19: whenever no upload_file call is running, a stream that the last    *)
(* call opened itself (it was given a path) is not open: it was closed     *)
(* when the call returned or raised, or was never opened.                  *)
C19_OwnStreamClosedAtExit ==
  (op # "upload_file" /\ file_arg \in {"path", "missing", "unreadable"})
    => stream # "open"

(* Witness of C19: an upload from a path was dispatched and raised, and    *)
(* its stream is closed.                                                   *)
C19_Witness ==
  /\ pc = "done" /\ done = "upload_file"
  /\ file_arg = "path"
  /\ result.kind = "raise" /\ Len(sent) >= 1
  /\ stream = "closed"

(* ============================== concurrency ============================= *)
(* C15: every request dispatched while another thread logs in or out       *)
(* carries the three default headers and exactly one credential header, a  *)
(* key or a bearer token the client was given.                             *)
C15_DispatchedWithOneCredential ==
  \A i \in 1..Len(sent) :
    LET h == sent[i].headers
    IN  /\ \A k \in DOMAIN BaseHeaders : k \in DOMAIN h /\ h[k] = BaseHeaders[k]
        /\ HasAuthorization(h) # HasApiKey(h)
        /\ HasAuthorization(h) => \E t \in Tokens : HasBearer(h, t)
        /\ HasApiKey(h) => h["X-API-Key"] \in Keys

(* =============================== webhooks =============================== *)
(* C13: validate_webhook_signature returns True when the signature is the  *)
(* hex HMAC-SHA256 digest of the payload keyed by the UTF-8 secret, and    *)
(* False for every other signature, payload or secret.                     *)
C13_TrueExactlyForTheDigest ==
  webhook.result # "none"
    => webhook.result =
         IF webhook.signature = HexHmacSha256(Utf8(webhook.secret), webhook.payload)
           THEN "True" ELSE "False"

(* For signatures of ASCII characters the statement holds. *)
TrueExactlyForTheDigestOnAscii ==
  webhook.signature \notin NonAsciiSignatures => C13_TrueExactlyForTheDigest

====
